---- MODULE Spec2Model ----
(***************************************************************************)
(* Webhook-triggered order relay (Bitget / ccxt).  The model follows the   *)
(* "enhanced" server (HMAC check, duplicate guard, leverage, market        *)
(* limits) of src/unnamed/part_000, lines 1-397.                           *)
(*                                                                         *)
(* Strings are sequences of one-character strings.  Numbers are naturals   *)
(* in fixed point (quantities in units of 1/AmountScale); NaN is a         *)
(* distinguished value.                                                    *)
(***************************************************************************)
EXTENDS Integers, Sequences, FiniteSets, TLC

VARIABLES
  nIn,             \* normalizeSymbol study: the input string
  nOut,            \* normalizeSymbol study: the results of successive applications
  cfg,             \* process.env as read at start-up
  env,             \* the clients: the bodies they send, whether requests overlap
  now,             \* Date.now()
  recentPayloads,  \* Map key -> timestamp
  marketsReady,    \* let marketsReady
  boot,            \* the loadMarkets() call made at module load
  req,             \* per request: position in the handler and its locals
  orders           \* createMarketOrder calls received by the gateway

vars == <<nIn, nOut, cfg, env, now, recentPayloads, marketsReady, boot, req, orders>>

handlerVars == <<cfg, env, now, recentPayloads, marketsReady, boot, req, orders>>

normVars == <<nIn, nOut>>

---------------------------------------------------------------------------
(* JavaScript string primitives *)

Lower == <<"a","b","c","d","e","f","g","h","i","j","k","l","m",
           "n","o","p","q","r","s","t","u","v","w","x","y","z">>

Upper == <<"A","B","C","D","E","F","G","H","I","J","K","L","M",
           "N","O","P","Q","R","S","T","U","V","W","X","Y","Z">>

\* position of the first occurrence of character c in s, 0 when absent
indexOf(s, c) ==
  IF \E i \in 1..Len(s) : s[i] = c
  THEN CHOOSE i \in 1..Len(s) : s[i] = c /\ \A j \in 1..(i-1) : s[j] # c
  ELSE 0

includes(s, c) == indexOf(s, c) > 0

toUpperCase(s) ==
  [i \in 1..Len(s) |->
     LET k == indexOf(Lower, s[i]) IN IF k > 0 THEN Upper[k] ELSE s[i]]

toLowerCase(s) ==
  [i \in 1..Len(s) |->
     LET k == indexOf(Upper, s[i]) IN IF k > 0 THEN Lower[k] ELSE s[i]]

\* String.prototype.replace with a string pattern: the FIRST occurrence only
replace(s, c, rep) ==
  LET i == indexOf(s, c)
  IN IF i = 0 THEN s ELSE SubSeq(s, 1, i-1) \o rep \o SubSeq(s, i+1, Len(s))

\* String.prototype.slice(from) and slice(0, to) on 0-based offsets
slice(s, from, to) == SubSeq(s, from + 1, IF to > Len(s) THEN Len(s) ELSE to)

trim(s) ==
  LET nonblank == {i \in 1..Len(s) : s[i] # " "}
  IN IF nonblank = {} THEN <<>>
     ELSE SubSeq(s, CHOOSE i \in nonblank : \A j \in nonblank : i <= j,
                    CHOOSE i \in nonblank : \A j \in nonblank : i >= j)

RECURSIVE split(_, _)
\* String.prototype.split on a one-character separator
split(s, c) ==
  LET i == indexOf(s, c)
  IN IF i = 0 THEN <<s>>
     ELSE <<SubSeq(s, 1, i-1)>> \o split(SubSeq(s, i+1, Len(s)), c)

\* text.split(/\s+/).filter(Boolean): the non-empty whitespace-separated tokens
tokens(s) == SelectSeq(split(s, " "), LAMBDA p : p # <<>>)

\* JavaScript null / undefined, kept apart from every string
null == <<"<null>">>

---------------------------------------------------------------------------
(* normalizeSymbol *)

MinSplitLen == 6

BaseLen == 3

normalizeSymbol(inputSymbol) ==
  IF inputSymbol = null \/ inputSymbol = <<>> THEN null
  ELSE LET t == trim(inputSymbol)
           s == replace(replace(t, "-", <<"/">>), "_", <<"/">>)
           u == IF ~includes(s, "/") /\ Len(s) >= MinSplitLen
                THEN slice(s, 0, BaseLen) \o <<"/">> \o slice(s, BaseLen, Len(s))
                ELSE s
       IN toUpperCase(u)

---------------------------------------------------------------------------
(* JavaScript numbers.  Naturals in fixed point; NaN and undefined are     *)
(* distinguished values outside the naturals.                              *)

NaN == 0 - 1

undefined == 0 - 2

isNaN(x) == x = NaN \/ x = undefined

\* JavaScript truthiness of a number-or-undefined: 0, NaN and undefined are falsy
truthy(x) == ~isNaN(x) /\ x # 0

\* a || b
or(a, b) == IF truthy(a) THEN a ELSE b

\* a <= b: false when either side is NaN
lte(a, b) == ~isNaN(a) /\ ~isNaN(b) /\ a <= b

\* quantities (base amounts) are counted in units of 1/AmountScale
AmountScale == 10 * 10 * 10

---------------------------------------------------------------------------
(* Configuration read from the environment at start-up *)

\* MIN_ORDER_AMOUNT, in quantity units (MIN_ORDER_AMOUNT=0.006)
MIN_ORDER_AMOUNT == 6

LEVERAGE == 2

DEFAULT_SYMBOL == <<"B","T","C","/","U","S","D","T",":","U","S","D","T">>

DUP_TTL_MS == 30 * 1000

\* a loadMarkets call gives up after this many retries
MaxLoadRetry == 3

\* cfg.secret:      WEBHOOK_SECRET is set
\* cfg.keys:        EXCHANGE_KEY and EXCHANGE_SECRET are both set
\* cfg.buffer:      SAFETY_BUFFER in percent (NaN when the value does not parse)
\* cfg.useLeverage: USE_LEVERAGE_FOR_SWAPS
\* cfg.type:        the exchange type, "swap" or "spot"
Configs ==
  [secret : BOOLEAN, keys : BOOLEAN, buffer : {100}, useLeverage : {FALSE}, type : {"swap"}]
    \cup [secret : {FALSE}, keys : {TRUE}, buffer : {100, 50, NaN}, useLeverage : {FALSE},
          type : {"swap"}]
    \cup [secret : {FALSE}, keys : {TRUE}, buffer : {100}, useLeverage : {TRUE},
          type : {"swap", "spot"}]

---------------------------------------------------------------------------
(* The exchange gateway (ccxt): market metadata, balances, tickers *)

BTC == <<"B","T","C">>

USDT == <<"U","S","D","T">>

DOGE == <<"D","O","G","E">>

DOGE_USDT == <<"D","O","G","E","/","U","S","D","T">>

\* Object.keys(exchange.markets), in insertion order, once markets are loaded
MarketKeys == <<DEFAULT_SYMBOL, DOGE_USDT>>

\* exchange.markets[k]; min is limits.amount.min (0: not declared), step the
\* amount precision, both in quantity units
MarketOf(k) ==
  IF k = DEFAULT_SYMBOL
  THEN [base |-> BTC, quote |-> USDT, type |-> "swap", min |-> 10, step |-> 2]
  ELSE [base |-> DOGE, quote |-> USDT, type |-> "spot", min |-> 0, step |-> 1]

\* the keys of exchange.markets: none while exchange.markets is undefined
keysOf(ready) == IF ready THEN {MarketKeys[i] : i \in 1..Len(MarketKeys)} ELSE {}

\* Array.prototype.find over Object.keys(exchange.markets): of the keys that
\* match, the first in key order, or null when none matches
findKey(matching) ==
  LET hits == {i \in 1..Len(MarketKeys) : MarketKeys[i] \in matching}
  IN IF hits = {} THEN null
     ELSE MarketKeys[CHOOSE i \in hits : \A j \in hits : i <= j]

\* a balance response: per asset {free, total}, or undefined when absent
NoAsset == [free |-> undefined, total |-> undefined, present |-> FALSE]

Asset(free, total) == [free |-> free, total |-> total, present |-> TRUE]

\* one wallet reports free amounts; the other a free amount of 0 with a
\* positive total for the quote, and no free amount for the base
Wallets ==
  { [usdt |-> Asset(1000, 1000), btc |-> Asset(6, 6)],
    [usdt |-> Asset(0, 1100),    btc |-> Asset(undefined, 8)] }

\* bal[asset]
balOf(bal, asset) ==
  IF asset = USDT THEN bal.usdt ELSE IF asset = BTC THEN bal.btc ELSE NoAsset

\* a fetchTicker outcome: the call rejects, or resolves with last/close/bid
TickerFail == [ok |-> FALSE, last |-> undefined, close |-> undefined, bid |-> undefined]

TickerLast == [ok |-> TRUE, last |-> 50000, close |-> 40000, bid |-> 30000]

Tickers ==
  { TickerFail,
    [ok |-> TRUE, last |-> undefined, close |-> undefined, bid |-> undefined],
    TickerLast,
    [ok |-> TRUE, last |-> undefined, close |-> undefined, bid |-> 50000] }

\* exchange.amountToPrecision: truncation to the market's amount step
amountToPrecision(k, amount) ==
  IF isNaN(amount) THEN NaN ELSE (amount \div MarketOf(k).step) * MarketOf(k).step

GatewayErrors == {"InsufficientFunds"}

---------------------------------------------------------------------------
(* Webhook bodies and signatures *)

HexDigits == <<"0","1","2","3","4","5","6","7","8","9","a","b","c","d","e","f">>

\* length of a hex-encoded SHA-256 digest
DigestHexLen == 64

\* a digest of the payload, standing for the keyed hash: a value in 0..250
checksum(s) ==
  IF s = <<>> THEN 0
  ELSE (7 * Len(s) + 11 * indexOf(Lower, s[Len(s)]) + 13 * indexOf(Lower, s[1])) % 251

\* computeHmac(WEBHOOK_SECRET, payloadString): a hex digest of fixed length
computeHmac(payloadString) ==
  LET c == checksum(payloadString)
  IN [i \in 1..DigestHexLen |-> HexDigits[((c + i * (c + 1)) % 16) + 1]]

\* crypto.createHash("sha256").update(rawText).digest("hex")
sha256(rawText) == <<"sha256">> \o rawText

Q == "\""

JsonNull == <<"n","u","l","l">>

JsonSell == <<"{", Q,"a","c","t","i","o","n",Q, ":", Q,"S","E","L","L",Q, "}">>

JsonBlankSymbol ==
  <<"{", Q,"a","c","t","i","o","n",Q, ":", Q,"b","u","y",Q, ",",
         Q,"s","y","m","b","o","l",Q, ":", Q," ",Q, "}">>

JsonEmptyObject == <<"{", "}">>

TextBuy == <<"b","u","y">>

TextBuyUpper == <<"B","U","Y">>

TextSellBtc == <<"s","e","l","l"," ","b","t","c">>

TextSellDoge == <<"s","e","l","l"," ","d","o","g","e","u","s","d","t">>

TextHold == <<"h","o","l","d"," ","b","t","c">>

\* the request bodies the environment sends; <<>> is a request without a body
Bodies ==
  { <<>>, TextBuy, TextSellBtc, TextSellDoge, TextHold,
    JsonNull, JsonSell, JsonBlankSymbol }

\* JSON.parse on the texts above: ok = FALSE is a SyntaxError
JSONparse(text) ==
  IF text = JsonNull
  THEN [ok |-> TRUE, isNull |-> TRUE, action |-> null, symbol |-> null]
  ELSE IF text = JsonSell
  THEN [ok |-> TRUE, isNull |-> FALSE, action |-> <<"S","E","L","L">>, symbol |-> null]
  ELSE IF text = JsonBlankSymbol
  THEN [ok |-> TRUE, isNull |-> FALSE, action |-> TextBuy, symbol |-> <<" ">>]
  ELSE IF text = JsonEmptyObject
  THEN [ok |-> TRUE, isNull |-> FALSE, action |-> null, symbol |-> null]
  ELSE [ok |-> FALSE, isNull |-> FALSE, action |-> null, symbol |-> null]

\* typeof req.body === "string" ? req.body : JSON.stringify(req.body || {})
rawTextOf(body) == IF body = <<>> THEN JsonEmptyObject ELSE body

\* the signature headers tried against a body: none, the right one, the digest
\* of another payload, a short value, an over-long value
SigChoices(body) ==
  { <<>>,
    computeHmac(rawTextOf(body)),
    computeHmac(rawTextOf(body) \o <<"x">>),
    <<"a","b","c">>,
    computeHmac(rawTextOf(body)) \o <<"0">> }

---------------------------------------------------------------------------
(* The webhook handler, cut at its awaits *)

\* the most requests of a run
MaxReq == 3

\* the most requests of a run that sends them one after the other to a
\* working exchange
MaxSequential == 2

\* the most requests of a run in which they may be in flight together
MaxOverlap == 2

Req == 1..MaxReq

TextSell == <<"s","e","l","l">>

\* time elapsed between two calls of Date.now(): none, exactly the TTL, more
Elapsed == {0, DUP_TTL_MS, DUP_TTL_MS + 1}

\* The clients and the exchange of a run:
\*   bodies    the request bodies sent
\*   requests  how many requests are sent
\*   overlap   whether a request may arrive before the one before is answered
\*   steady    whether every gateway call succeeds (FALSE: each call may fail)
\*   elapsed   the times that may pass between two arrivals
\*   loading   exchange.loadMarkets: "up" every call succeeds, "flaky" each
\*             call may fail
\* A single request against an exchange whose calls may fail:
SingleRequest ==
  [bodies |-> Bodies, requests |-> 1, overlap |-> FALSE, steady |-> FALSE,
   elapsed |-> {0}, loading |-> "flaky"]

\* Requests one after the other against an exchange whose calls succeed:
OneAtATime ==
  [bodies |-> Bodies \ {TextSellBtc, TextSellDoge}, requests |-> MaxSequential,
   overlap |-> FALSE, steady |-> TRUE, elapsed |-> Elapsed, loading |-> "up"]

\* Requests that may arrive while earlier ones are still being handled, two
\* spellings of the same buy signal, against an exchange whose calls succeed:
Overlapping ==
  [bodies |-> {TextBuy, TextBuyUpper}, requests |-> MaxOverlap,
   overlap |-> TRUE, steady |-> TRUE, elapsed |-> {0, DUP_TTL_MS + 1},
   loading |-> "up"]

\* The same or another body sent again and again, one request after the
\* other, against an exchange whose calls succeed:
Resubmitting ==
  [bodies |-> {TextBuy, TextHold}, requests |-> MaxReq,
   overlap |-> FALSE, steady |-> TRUE, elapsed |-> {0, 1, DUP_TTL_MS}, loading |-> "up"]

\* the outcomes of an exchange.loadMarkets call
LoadSettles == IF env.loading = "up" THEN {TRUE} ELSE BOOLEAN

\* the outcomes of a gateway call that may fail
Settles == IF env.steady THEN {TRUE} ELSE BOOLEAN

\* no balance response yet
NoBalance == [usdt |-> NoAsset, btc |-> NoAsset]

\* no order record
NoOrder == [id |-> 0, symbol |-> null, side |-> <<>>, amount |-> 0]

ReqIdle ==
  [pc |-> "idle", body |-> <<>>, sig |-> <<>>, at |-> 0, guard |-> FALSE,
   dup |-> FALSE, action |-> <<>>, symbol |-> null, sym |-> null,
   market |-> null, base |-> null, quote |-> null,
   bal |-> NoBalance, seen |-> 0, freeQuote |-> 0, freeBase |-> 0, price |-> 0, sized |-> FALSE,
   rawBuyAmount |-> 0, rawSellAmount |-> 0, buyAmount |-> 0, sellAmount |-> 0,
   roundKey |-> null, rounded |-> {}, ticked |-> FALSE, qty |-> 0, retry |-> 0,
   status |-> 0, error |-> "", detail |-> "", order |-> NoOrder,
   gw |-> "", diagFailed |-> FALSE]

\* res.status(status).json({error}) and return
respond(rq, status, error) ==
  [rq EXCEPT !.pc = "done", !.status = status, !.error = error]

\* lines 277-288: "ok", a 401 answer, or the RangeError that
\* crypto.timingSafeEqual throws on buffers of different length
verifySignature(secretSet, sig, rawText) ==
  LET computed == computeHmac(rawText)
  IN IF ~secretSet THEN "ok"
     ELSE IF sig = <<>> THEN "missing_signature"
     ELSE IF Len(sig) # Len(computed) THEN "RangeError"
     ELSE IF sig # computed THEN "invalid_signature"
     ELSE "ok"

\* a purge that drops an entry already at age DUP_TTL_MS: what C1 must tell
\* from purged
purgedAtTtl(map, t) ==
  [k \in {x \in DOMAIN map : ~(t - map[x] >= DUP_TTL_MS)} |-> map[k]]

\* isDuplicate, the purge: the entries of the map that are kept
purged(map, t) ==
  [k \in {x \in DOMAIN map : ~(t - map[x] > DUP_TTL_MS)} |-> map[k]]

\* an isDuplicate that stamps the key anew on every call, so that the window
\* slides: what C18 must tell from recorded
recordedSliding(map, key, t) ==
  [k \in DOMAIN purged(map, t) \cup {key} |-> IF k = key THEN t ELSE purged(map, t)[k]]

\* an isDuplicate that only looks the key up and leaves the recording to a
\* later step: what C20 must tell from recorded
recordedLater(map, key, t) == purged(map, t)

\* isDuplicate, the map it leaves
recorded(map, key, t) ==
  IF key \in DOMAIN purged(map, t) THEN purged(map, t)
  ELSE [k \in DOMAIN purged(map, t) \cup {key} |->
          IF k = key THEN t ELSE purged(map, t)[k]]

\* isDuplicate, the value it returns
isDuplicate(map, key, t) == key \in DOMAIN purged(map, t)

\* lines 297-319: the payload read from the body; status 0 means accepted
parsePayload(rawText) ==
  LET text   == trim(rawText)
      json   == JSONparse(text)
      parts  == tokens(text)
      first  == IF Len(parts) > 0 THEN toLowerCase(parts[1]) ELSE <<>>
      second == IF Len(parts) > 1 THEN normalizeSymbol(parts[2]) ELSE DEFAULT_SYMBOL
      pAct   == IF json.ok THEN json.action ELSE first
      pSym   == IF json.ok THEN json.symbol ELSE second
      action == IF pAct = null THEN <<>> ELSE toLowerCase(pAct)
      symbol == IF pSym = null \/ pSym = <<>> THEN DEFAULT_SYMBOL ELSE normalizeSymbol(pSym)
      out(st, err) == [status |-> st, error |-> err, action |-> action, symbol |-> symbol]
  IN IF json.ok /\ json.isNull THEN out(500, "TypeError")
     ELSE IF ~json.ok /\ Len(parts) = 0 THEN out(400, "Empty payload")
     ELSE IF ~json.ok /\ first # TextBuy /\ first # TextSell THEN out(400, "Unknown action")
     ELSE IF action # TextBuy /\ action # TextSell THEN out(400, "Action must be buy or sell")
     ELSE IF symbol = null \/ symbol = <<>> THEN out(400, "Missing symbol")
     ELSE out(0, "")

\* a sizer that, without a market, takes the whole symbol as base and no
\* quote: what C12 must tell from startSizing
startSizingWithoutSplit(rq, ready) ==
  LET symbol0 == rq.symbol
      tries   == { symbol0, replace(symbol0, "/", <<>>), replace(symbol0, "/", <<"-">>),
                   replace(replace(symbol0, "/", <<>>), "-", <<>>) }
      found   == findKey({k \in keysOf(ready) : k \in tries \/ replace(k, "/", <<>>) \in tries})
      symbol  == IF ready /\ symbol0 \notin keysOf(ready) /\ found # null
                 THEN found ELSE symbol0
      market  == IF symbol \in keysOf(ready) THEN symbol ELSE null
  IN [rq EXCEPT !.pc = "balance", !.sym = symbol, !.market = market,
                !.base = IF market # null THEN MarketOf(market).base ELSE symbol,
                !.quote = IF market # null THEN MarketOf(market).quote ELSE null]

\* lines 128-155 of computeAllInAmounts: the symbol mapped to a market key,
\* the market looked up, base and quote; then fetchBalance is called
startSizing(rq, ready) ==
  LET symbol0 == rq.symbol
      tries   == { symbol0, replace(symbol0, "/", <<>>), replace(symbol0, "/", <<"-">>),
                   replace(replace(symbol0, "/", <<>>), "-", <<>>) }
      found   == findKey({k \in keysOf(ready) : k \in tries \/ replace(k, "/", <<>>) \in tries})
      symbol  == IF ready /\ symbol0 \notin keysOf(ready) /\ found # null
                 THEN found ELSE symbol0
      market  == IF symbol \in keysOf(ready) THEN symbol ELSE null
      parts   == split(symbol, "/")
  IN [rq EXCEPT !.pc = "balance", !.sym = symbol, !.market = market,
                !.base = IF market # null THEN MarketOf(market).base ELSE parts[1],
                !.quote = IF market # null THEN MarketOf(market).quote
                          ELSE IF Len(parts) > 1 THEN parts[2] ELSE null]

\* line 127: if (!marketsReady) await loadMarkets()
enterSizer(rq, ready) ==
  IF ~ready THEN [rq EXCEPT !.pc = "sLoad", !.retry = 0] ELSE startSizing(rq, ready)

\* lines 156-157, one asset: free, else total, else 0
freeOf(bal, asset) ==
  IF balOf(bal, asset).present /\ truthy(or(balOf(bal, asset).free, balOf(bal, asset).total))
  THEN or(balOf(bal, asset).free, balOf(bal, asset).total)
  ELSE 0

\* lines 156-160: the free balances; then fetchTicker is called
afterBalance(rq, bal) ==
  [rq EXCEPT !.pc = "ticker", !.bal = bal, !.freeQuote = freeOf(bal, rq.quote),
             !.freeBase = freeOf(bal, rq.base)]

\* line 164
priceOf(ticker) ==
  IF ticker.ok /\ truthy(or(or(ticker.last, ticker.close), ticker.bid))
  THEN or(or(ticker.last, ticker.close), ticker.bid)
  ELSE 0

\* a buy quantity leveraged whenever USE_LEVERAGE_FOR_SWAPS is set, whatever
\* the exchange type: what C14 must tell from rawBuyOf
rawBuyOfAnyType(c, freeQuote, price) ==
  IF isNaN(c.buffer) THEN NaN
  ELSE IF c.useLeverage
  THEN (freeQuote * c.buffer * LEVERAGE * AmountScale) \div (100 * price)
  ELSE (freeQuote * c.buffer * AmountScale) \div (100 * price)

\* lines 168-173, in fixed point
rawBuyOf(c, freeQuote, price) ==
  IF isNaN(c.buffer) THEN NaN
  ELSE IF c.type = "swap" /\ c.useLeverage
  THEN (freeQuote * c.buffer * LEVERAGE * AmountScale) \div (100 * price)
  ELSE (freeQuote * c.buffer * AmountScale) \div (100 * price)

\* line 174
rawSellOf(c, freeBase) ==
  IF isNaN(c.buffer) THEN NaN ELSE (freeBase * c.buffer) \div 100

RoundOutcomes == {"ok", "throwOnBuy", "throwOnSell"}

\* lines 176-195: the key whose precision is applied, null when none
roundingKey(symbol, ready) ==
  IF symbol \in keysOf(ready) THEN symbol
  ELSE findKey({k \in keysOf(ready) : replace(k, "/", <<>>) = replace(symbol, "/", <<>>)})

\* lines 197-202: a positive quantity below the market's minimum becomes 0
enforceMin(market, amount) ==
  IF market # null /\ truthy(MarketOf(market).min)
     /\ ~isNaN(amount) /\ amount > 0 /\ amount < MarketOf(market).min
  THEN 0 ELSE amount

\* lines 164-216: price, raw amounts, rounding, minimum; the SizingResult
sized(rq, c, ticker, round, ready) ==
  LET price == priceOf(ticker)
      rawB  == rawBuyOf(c, rq.freeQuote, price)
      rawS  == rawSellOf(c, rq.freeBase)
      key   == roundingKey(rq.sym, ready)
      buyR  == IF key # null /\ round # "throwOnBuy" THEN amountToPrecision(key, rawB) ELSE rawB
      sellR == IF key # null /\ round = "ok" THEN amountToPrecision(key, rawS) ELSE rawS
      symR  == IF key # null /\ round = "ok" THEN key ELSE rq.sym
  IN [rq EXCEPT !.price = price, !.rawBuyAmount = rawB, !.rawSellAmount = rawS,
                !.buyAmount = enforceMin(rq.market, buyR),
                !.sellAmount = enforceMin(rq.market, sellR),
                !.sym = symR, !.sized = TRUE, !.roundKey = key,
                !.rounded = IF key = null \/ round = "throwOnBuy" THEN {}
                            ELSE IF round = "throwOnSell" THEN {"buy"}
                            ELSE {"buy", "sell"}]

\* the error text of lines 355 and 374
tooSmall(action) ==
  IF action = TextBuy THEN "Computed buy size too small" ELSE "Computed sell size too small"

\* a quantity check that forgets isNaN(qty): what C6 must tell from placeOrder
placeOrderWithoutNaNTest(rq) ==
  LET qty == IF rq.action = TextBuy THEN rq.buyAmount ELSE rq.sellAmount
  IN IF lte(qty, MIN_ORDER_AMOUNT)
     THEN [respond(rq, 400, tooSmall(rq.action)) EXCEPT !.qty = qty]
     ELSE [rq EXCEPT !.pc = "order", !.qty = qty]

\* lines 350-359 and 370-378: the quantity check; then createMarketOrder is called
placeOrder(rq) ==
  LET qty == IF rq.action = TextBuy THEN rq.buyAmount ELSE rq.sellAmount
  IN IF isNaN(qty) \/ lte(qty, MIN_ORDER_AMOUNT)
     THEN [respond(rq, 400, tooSmall(rq.action)) EXCEPT !.qty = qty]
     ELSE [rq EXCEPT !.pc = "order", !.qty = qty]

\* lines 219-220: whether setLeverageIfNeeded calls the gateway
leverageNeeded(c) == c.type = "swap" /\ c.useLeverage /\ LEVERAGE > 1

\* a handler that omits the credentials test of lines 334-336: what C7 must
\* tell from afterSizing
afterSizingWithoutKeysTest(rq, c, ready) ==
  IF c.type = "swap" /\ rq.sym \in keysOf(ready) /\ MarketOf(rq.sym).type # "swap"
  THEN respond(rq, 400, "market_type_mismatch")
  ELSE IF leverageNeeded(c) THEN [rq EXCEPT !.pc = "leverage"]
  ELSE placeOrder(rq)

\* lines 334-348: credentials, market type, leverage
afterSizing(rq, c, ready) ==
  IF ~c.keys THEN respond(rq, 500, "API keys not set in environment")
  ELSE IF c.type = "swap" /\ rq.sym \in keysOf(ready) /\ MarketOf(rq.sym).type # "swap"
  THEN respond(rq, 400, "market_type_mismatch")
  ELSE IF leverageNeeded(c) THEN [rq EXCEPT !.pc = "leverage"]
  ELSE placeOrder(rq)

\* lines 160-165 and 323-348: the ticker arrives
afterTicker(rq, c, ticker, round, ready) ==
  IF ~truthy(priceOf(ticker))
  THEN respond([rq EXCEPT !.ticked = TRUE], 500, "Cannot fetch price for symbol")
  ELSE afterSizing(sized([rq EXCEPT !.ticked = TRUE], c, ticker, round, ready), c, ready)

Diagnostics == {"fetchOpenOrders", "fetchPositions", "fetchBalance"}

\* the order record the gateway answers the i-th createMarketOrder call with
orderRecord(i) ==
  [id |-> i, symbol |-> orders[i].symbol, side |-> orders[i].side,
   amount |-> orders[i].amount]

\* a handler whose diagnostic fetches are not wrapped in try/catch, so that a
\* failing one reaches the createMarketOrder catch: what C5 must tell from
\* afterOrder
afterOrderDiagnosticsFatal(rq, order, outcome, failed) ==
  IF outcome = "ok" /\ failed = {}
  THEN [rq EXCEPT !.pc = "done", !.status = 200, !.order = order, !.gw = outcome]
  ELSE [respond(rq, 500, "order_failed") EXCEPT !.gw = outcome, !.detail = outcome,
                                                 !.diagFailed = (failed # {})]

\* lines 358-368 and 377-387: createMarketOrder settles, with the gateway's
\* order record or its error; failed are the diagnostic fetches that threw
afterOrder(rq, order, outcome, failed) ==
  IF outcome = "ok"
  THEN [rq EXCEPT !.pc = "done", !.status = 200, !.order = order, !.gw = outcome,
                  !.diagFailed = (failed # {})]
  ELSE [respond(rq, 500, "order_failed") EXCEPT !.gw = outcome, !.detail = outcome]

\* the createMarketOrder call a request makes when it moves to "order"
submitted(old, new, r) ==
  IF new.pc = "order" /\ old.pc # "order"
  THEN Append(orders, [req |-> r, symbol |-> new.sym, side |-> new.action, amount |-> new.qty])
  ELSE orders

\* lines 272-323 up to the first await
received(rq, body, sig, t, c, map, ready) ==
  LET rawText == rawTextOf(body)
      arrived == [rq EXCEPT !.body = body, !.sig = sig, !.at = t]
      auth    == verifySignature(c.secret, sig, rawText)
      guarded == [arrived EXCEPT !.guard = TRUE, !.dup = isDuplicate(map, sha256(rawText), t)]
      payload == parsePayload(rawText)
      parsed  == [guarded EXCEPT !.action = payload.action, !.symbol = payload.symbol]
  IN IF auth = "RangeError" THEN respond(arrived, 500, auth)
     ELSE IF auth # "ok" THEN respond(arrived, 401, auth)
     ELSE IF guarded.dup THEN respond(guarded, 200, "")
     ELSE IF payload.status # 0 THEN respond(guarded, payload.status, payload.error)
     ELSE IF ~ready THEN [parsed EXCEPT !.pc = "hLoad", !.retry = 0]
     ELSE enterSizer(parsed, ready)

Init ==
  /\ nIn = <<>>
  /\ nOut = <<>>
  /\ cfg \in Configs
  /\ env \in {SingleRequest, OneAtATime}
  /\ now = 0
  /\ recentPayloads = <<>>
  /\ marketsReady = FALSE
  /\ boot = [pc |-> "load", retry |-> 0]
  /\ req = [r \in Req |-> ReqIdle]
  /\ orders = <<>>

\* a handler that records the key only once the payload has been parsed and
\* accepted: what C21 must tell from Receive
ReceiveRecordingAfterParse(r) ==
  /\ req[r].pc = "idle"
  /\ r <= env.requests
  /\ \A q \in Req : q < r => req[q].pc # "idle" /\ (env.overlap \/ req[q].pc = "closed")
  /\ \E body \in env.bodies, dt \in (IF r = 1 THEN {0} ELSE env.elapsed) :
       \E sig \in (IF cfg.secret THEN SigChoices(body) ELSE {<<>>}) :
         /\ now' = now + dt
         /\ req' = [req EXCEPT ![r] =
                      received(req[r], body, sig, now + dt, cfg, recentPayloads, marketsReady)]
         /\ recentPayloads' =
              IF /\ verifySignature(cfg.secret, sig, rawTextOf(body)) = "ok"
                 /\ parsePayload(rawTextOf(body)).status = 0
              THEN recorded(recentPayloads, sha256(rawTextOf(body)), now + dt)
              ELSE recentPayloads
  /\ UNCHANGED <<normVars, cfg, env, marketsReady, boot, orders>>

\* a handler that records the key before it verifies the signature: what C22
\* must tell from Receive
ReceiveRecordingUnverified(r) ==
  /\ req[r].pc = "idle"
  /\ r <= env.requests
  /\ \A q \in Req : q < r => req[q].pc # "idle" /\ (env.overlap \/ req[q].pc = "closed")
  /\ \E body \in env.bodies, dt \in (IF r = 1 THEN {0} ELSE env.elapsed) :
       \E sig \in (IF cfg.secret THEN SigChoices(body) ELSE {<<>>}) :
         /\ now' = now + dt
         /\ req' = [req EXCEPT ![r] =
                      received(req[r], body, sig, now + dt, cfg, recentPayloads, marketsReady)]
         /\ recentPayloads' = recorded(recentPayloads, sha256(rawTextOf(body)), now + dt)
  /\ UNCHANGED <<normVars, cfg, env, marketsReady, boot, orders>>

\* POST /webhook arrives and runs to its first await
Receive(r) ==
  /\ req[r].pc = "idle"
  /\ r <= env.requests
  /\ \A q \in Req : q < r => req[q].pc # "idle" /\ (env.overlap \/ req[q].pc = "closed")
  /\ \E body \in env.bodies, dt \in (IF r = 1 THEN {0} ELSE env.elapsed) :
       \E sig \in (IF cfg.secret THEN SigChoices(body) ELSE {<<>>}) :
         /\ now' = now + dt
         /\ req' = [req EXCEPT ![r] =
                      received(req[r], body, sig, now + dt, cfg, recentPayloads, marketsReady)]
         /\ recentPayloads' =
              IF verifySignature(cfg.secret, sig, rawTextOf(body)) = "ok"
              THEN recorded(recentPayloads, sha256(rawTextOf(body)), now + dt)
              ELSE recentPayloads
  /\ UNCHANGED <<normVars, cfg, env, marketsReady, boot, orders>>

\* a loadMarkets that allows one retry more: what C16 must tell from loadStep
loadStepOneMore(ok, retry) ==
  IF ok THEN "return" ELSE IF retry <= MaxLoadRetry THEN "retry" ELSE "return"

\* loadMarkets, lines 80-93: one exchange.loadMarkets(true) settles; retry is
\* the call's argument; "retry" is the recursive call, "return" the return
loadStep(ok, retry) ==
  IF ok THEN "return" ELSE IF retry < MaxLoadRetry THEN "retry" ELSE "return"

\* the loadMarkets() of line 94
BootLoad ==
  /\ boot.pc = "load"
  /\ \E ok \in LoadSettles :
       /\ marketsReady' = (marketsReady \/ ok)
       /\ boot' = IF loadStep(ok, boot.retry) = "retry"
                  THEN [boot EXCEPT !.retry = boot.retry + 1]
                  ELSE [boot EXCEPT !.pc = "done"]
  /\ UNCHANGED <<normVars, cfg, env, now, recentPayloads, req, orders>>

\* the loadMarkets() awaited at line 321
HandlerLoad(r) ==
  /\ req[r].pc = "hLoad"
  /\ \E ok \in LoadSettles :
       /\ marketsReady' = (marketsReady \/ ok)
       /\ req' = [req EXCEPT ![r] =
                    IF loadStep(ok, req[r].retry) = "retry"
                    THEN [req[r] EXCEPT !.retry = req[r].retry + 1]
                    ELSE enterSizer(req[r], marketsReady \/ ok)]
  /\ UNCHANGED <<normVars, cfg, env, now, recentPayloads, boot, orders>>

\* the loadMarkets() awaited at line 127
SizerLoad(r) ==
  /\ req[r].pc = "sLoad"
  /\ \E ok \in LoadSettles :
       /\ marketsReady' = (marketsReady \/ ok)
       /\ req' = [req EXCEPT ![r] =
                    IF loadStep(ok, req[r].retry) = "retry"
                    THEN [req[r] EXCEPT !.retry = req[r].retry + 1]
                    ELSE startSizing(req[r], marketsReady \/ ok)]
  /\ UNCHANGED <<normVars, cfg, env, now, recentPayloads, boot, orders>>

\* a fetchBalance that waits while another request is between its balance
\* and its order: what C17 must tell from FetchBalance
FetchBalanceExclusive(r) ==
  /\ req[r].pc = "balance"
  /\ \A q \in Req \ {r} : req[q].pc \notin {"ticker", "leverage", "order"}
  /\ \E ok \in Settles, bal \in Wallets :
       req' = [req EXCEPT ![r] =
                 IF ok THEN [afterBalance(req[r], bal) EXCEPT !.seen = Len(orders)]
                 ELSE respond(req[r], 500, "fetchBalance failed")]
  /\ UNCHANGED <<normVars, cfg, env, now, recentPayloads, marketsReady, boot, orders>>

\* exchange.fetchBalance() of line 155 settles; seen is the number of orders
\* the gateway had received when it answered
FetchBalance(r) ==
  /\ req[r].pc = "balance"
  /\ \E ok \in Settles, bal \in Wallets :
       req' = [req EXCEPT ![r] =
                 IF ok THEN [afterBalance(req[r], bal) EXCEPT !.seen = Len(orders)]
                 ELSE respond(req[r], 500, "fetchBalance failed")]
  /\ UNCHANGED <<normVars, cfg, env, now, recentPayloads, marketsReady, boot, orders>>

\* exchange.fetchTicker() of line 160 settles; the handler runs on to its
\* next await or to its answer
FetchTicker(r) ==
  /\ req[r].pc = "ticker"
  /\ \E ticker \in (IF env.steady THEN {TickerLast} ELSE Tickers),
        round \in (IF env.steady THEN {"ok"} ELSE RoundOutcomes) :
       /\ req' = [req EXCEPT ![r] = afterTicker(req[r], cfg, ticker, round, marketsReady)]
       /\ orders' = submitted(req[r], afterTicker(req[r], cfg, ticker, round, marketsReady), r)
  /\ UNCHANGED <<normVars, cfg, env, now, recentPayloads, marketsReady, boot>>

\* exchange.setLeverage() of line 223 settles, either way
SetLeverage(r) ==
  /\ req[r].pc = "leverage"
  /\ req' = [req EXCEPT ![r] = placeOrder(req[r])]
  /\ orders' = submitted(req[r], placeOrder(req[r]), r)
  /\ UNCHANGED <<normVars, cfg, env, now, recentPayloads, marketsReady, boot>>

\* exchange.createMarketOrder() settles; the diagnostic fetches follow
CreateMarketOrder(r) ==
  /\ req[r].pc = "order"
  /\ \E outcome \in (IF env.steady THEN {"ok"} ELSE {"ok"} \cup GatewayErrors),
        failed \in (IF env.steady THEN {{}} ELSE SUBSET Diagnostics) :
       req' = [req EXCEPT ![r] =
                 afterOrder(req[r],
                            orderRecord(CHOOSE i \in 1..Len(orders) : orders[i].req = r),
                            outcome, failed)]
  /\ UNCHANGED <<normVars, cfg, env, now, recentPayloads, marketsReady, boot, orders>>

\* the handler has returned: its locals are gone; what stays is what the
\* client saw (the body it sent, when, the answer) and the gateway's orders
Return(r) ==
  /\ req[r].pc = "done"
  /\ req' = [req EXCEPT ![r] =
               [ReqIdle EXCEPT !.pc = "closed", !.body = req[r].body, !.at = req[r].at,
                               !.guard = req[r].guard, !.dup = req[r].dup,
                               !.status = req[r].status]]
  /\ UNCHANGED <<normVars, cfg, env, now, recentPayloads, marketsReady, boot, orders>>

Next ==
  \/ BootLoad
  \/ \E r \in Req : Receive(r)
  \/ \E r \in Req : HandlerLoad(r)
  \/ \E r \in Req : SizerLoad(r)
  \/ \E r \in Req : FetchBalance(r)
  \/ \E r \in Req : FetchTicker(r)
  \/ \E r \in Req : SetLeverage(r)
  \/ \E r \in Req : CreateMarketOrder(r)
  \/ \E r \in Req : Return(r)

Spec == Init /\ [][Next]_vars

---------------------------------------------------------------------------
(* Properties of the webhook handler *)

\* the request has been answered
answered(r) == req[r].pc \in {"done", "closed"}

\* the createMarketOrder calls made on behalf of request r
ordersOf(r) == {i \in 1..Len(orders) : orders[i].req = r}

\* two requests carried the same raw body text
sameBody(a, b) == rawTextOf(req[a].body) = rawTextOf(req[b].body)

\* the bodies that are empty, name no buy/sell action, or give no symbol
MalformedBodies == {<<>>, TextHold, JsonNull, JsonBlankSymbol}

WellFormedBodies == Bodies \ MalformedBodies

\* the quantity of the SizingResult for the side of the signal
sideQty(rq) == IF rq.action = TextBuy THEN rq.buyAmount ELSE rq.sellAmount

\* NaN, or not above the configured minimum tradable amount
undersized(q) == isNaN(q) \/ lte(q, MIN_ORDER_AMOUNT)

\* positive but below the minimum order amount that market k declares
belowMin(k, q) == ~isNaN(q) /\ q > 0 /\ q < MarketOf(k).min

\* the number of occurrences of character c in s
count(s, c) == Cardinality({i \in 1..Len(s) : s[i] = c})

\* the request is inside computeAllInAmounts
inSizer(rq) == rq.pc \in {"sLoad", "balance", "ticker"}

\* C1: when the same raw body is submitted twice and the second arrives
\* within DUP_TTL_MS of the first (the one recorded as new), the second is
\* answered 200 as a duplicate and places no order; when it arrives after
\* every earlier submission of that body has aged beyond DUP_TTL_MS, it is
\* treated as new.  (Requests that fail the signature check never reach the
\* guard and are left out.)
C1_DuplicateGuard ==
  /\ \A a, b \in Req :
       (a < b /\ req[a].guard /\ req[b].guard /\ sameBody(a, b)
          /\ ~req[a].dup /\ req[b].at - req[a].at <= DUP_TTL_MS)
       => (req[b].dup /\ req[b].status = 200 /\ ordersOf(b) = {})
  /\ \A b \in Req :
       (req[b].guard
          /\ \A a \in Req : (a < b /\ req[a].guard /\ sameBody(a, b))
                              => req[b].at - req[a].at > DUP_TTL_MS)
       => ~req[b].dup

\* a body that placed an order is sent again exactly DUP_TTL_MS later and is
\* answered as a duplicate, without an order
C1_DuplicateAtTtl ==
  \E a, b \in Req :
    /\ a < b /\ req[a].guard /\ req[b].guard /\ sameBody(a, b)
    /\ ~req[a].dup /\ ordersOf(a) # {}
    /\ req[b].at - req[a].at = DUP_TTL_MS
    /\ req[b].dup /\ req[b].status = 200 /\ ordersOf(b) = {}

\* C2: with a webhook secret configured, every request whose signature
\* header is missing or differs from the HMAC of the body, whatever its value
\* and length, is answered 401.
C2_BadSignatureIs401 ==
  \A r \in Req :
    (cfg.secret /\ req[r].pc = "done"
       /\ req[r].sig # computeHmac(rawTextOf(req[r].body)))
    => req[r].status = 401

\* C3: every request (that passes the signature check) whose body is empty,
\* whose action is neither buy nor sell, or from which no symbol can be
\* derived is answered 400, on every submission of that body, and places no
\* order.
C3_MalformedIs400 ==
  \A r \in Req :
    (answered(r) /\ req[r].guard /\ req[r].body \in MalformedBodies)
    => (req[r].status = 400 /\ ordersOf(r) = {})

\* C4: when the ticker yields none of last, close and bid, or the ticker
\* fetch fails, the request is answered 400 and no order is placed.
C4_NoPriceIs400 ==
  \A r \in Req :
    (req[r].pc = "done" /\ req[r].ticked /\ ~truthy(req[r].price))
    => (req[r].status = 400 /\ ordersOf(r) = {})

\* C5: when createMarketOrder throws, the answer is 500 with the gateway's
\* error as detail; when it succeeds, the answer is 200 with the gateway's
\* order record unchanged, whether or not the diagnostic fetches that follow
\* succeed.
C5_OrderOutcomeReported ==
  \A r \in Req :
    (req[r].pc = "done" /\ req[r].gw # "")
    => IF req[r].gw = "ok"
       THEN /\ req[r].status = 200
            /\ ordersOf(r) # {}
            /\ \A i \in ordersOf(r) : req[r].order = orderRecord(i)
       ELSE /\ req[r].status = 500
            /\ req[r].error = "order_failed"
            /\ req[r].detail = req[r].gw

\* the order went through, a diagnostic fetch failed, the answer is 200 with
\* the order record
C5_DiagnosticsFailedStill200 ==
  \E r \in Req :
    /\ req[r].pc = "done" /\ req[r].gw = "ok" /\ req[r].diagFailed
    /\ req[r].status = 200
    /\ \E i \in ordersOf(r) : req[r].order = orderRecord(i)

C9_SymbolCanonical ==
  \A r \in Req :
    inSizer(req[r])
    => (req[r].symbol = toUpperCase(req[r].symbol) /\ count(req[r].symbol, "/") = 1)

\* C10: whenever the metadata of the symbol used for rounding declares a
\* minimum order amount and a rounded buy or sell quantity is positive but
\* below it, that quantity of the SizingResult is 0, also when the symbol
\* found its metadata only at the precision-rounding step.
C10_MinimumEnforced ==
  \A r \in Req :
    (req[r].sized /\ req[r].roundKey # null /\ truthy(MarketOf(req[r].roundKey).min))
    => /\ ("buy" \in req[r].rounded
             /\ belowMin(req[r].roundKey,
                         amountToPrecision(req[r].roundKey, req[r].rawBuyAmount)))
          => req[r].buyAmount = 0
       /\ ("sell" \in req[r].rounded
             /\ belowMin(req[r].roundKey,
                         amountToPrecision(req[r].roundKey, req[r].rawSellAmount)))
          => req[r].sellAmount = 0


\* C11: if precision rounding throws for the buy or for the sell quantity,
\* the sizer goes on and its SizingResult carries the raw quantities for
\* both sides (which the minimum enforcement may still zero).
C11_RawKeptOnThrow ==
  \A r \in Req :
    (req[r].sized /\ req[r].roundKey # null /\ req[r].rounded # {"buy", "sell"})
    => /\ req[r].buyAmount = enforceMin(req[r].market, req[r].rawBuyAmount)
       /\ req[r].sellAmount = enforceMin(req[r].market, req[r].rawSellAmount)


\* the sizer has passed its market lookup (line 142)
pastLookup(rq) == rq.pc \in {"balance", "ticker"} \/ rq.ticked

\* C12: when the metadata has no entry matching the symbol, also when it
\* never loaded, base and quote are the parts of the literal symbol split at
\* "/", and the sizer does not throw for want of metadata: it fails only
\* when the balance or the price cannot be fetched, and returns a
\* SizingResult otherwise.
C12_FallbackSplit ==
  \A r \in Req :
    (pastLookup(req[r]) /\ req[r].market = null)
    => /\ req[r].base = split(req[r].symbol, "/")[1]
       /\ req[r].quote = (IF Len(split(req[r].symbol, "/")) > 1
                          THEN split(req[r].symbol, "/")[2] ELSE null)
       /\ (req[r].ticked /\ truthy(req[r].price)) => req[r].sized
       /\ (req[r].ticked /\ ~req[r].sized)
            => req[r].error = "Cannot fetch price for symbol"

\* metadata never loaded: "DOG/EUSDT" is sized with base DOG and quote EUSDT
C12_SizedWithoutMetadata ==
  \E r \in Req :
    /\ ~marketsReady /\ req[r].sized /\ req[r].market = null
    /\ req[r].symbol = <<"D","O","G","/","E","U","S","D","T">>
    /\ req[r].base = <<"D","O","G">>
    /\ req[r].quote = <<"E","U","S","D","T">>


\* the amount C13 prescribes for an asset of a balance response: the free
\* amount when one is reported, else the total, and 0 for an absent asset
freeElseTotal(a) ==
  IF ~a.present THEN 0
  ELSE IF a.free # undefined THEN a.free
  ELSE IF a.total # undefined THEN a.total
  ELSE 0

\* C13: for the quote and for the base asset, the sizer uses the free amount
\* whenever the balance response reports one, a free amount of zero
\* included; the total only when no free amount is reported; zero when the
\* asset is absent.
C13_FreeBeforeTotal ==
  \A r \in Req :
    (req[r].pc = "ticker" \/ req[r].ticked)
    => /\ req[r].freeQuote = freeElseTotal(balOf(req[r].bal, req[r].quote))
       /\ req[r].freeBase = freeElseTotal(balOf(req[r].bal, req[r].base))


\* the leverage factor C14 prescribes
leverageFactor == IF cfg.type = "swap" /\ cfg.useLeverage THEN LEVERAGE ELSE 1

\* C14: before rounding, the buy quantity is freeQuote x SAFETY_BUFFER /
\* price, times LEVERAGE exactly when the exchange type is swap and leverage
\* is enabled, and the sell quantity is freeBase x SAFETY_BUFFER (buffer in
\* percent, quantities in units of 1/AmountScale, no remainder lost);
\* freeQuote 1000 at price 50000 gives 0.02 with buffer 1.0 and 0.01 with
\* buffer 0.5.
C14_RawQuantities ==
  \A r \in Req :
    (req[r].sized /\ ~isNaN(cfg.buffer))
    => /\ req[r].rawBuyAmount * 100 * req[r].price
            = req[r].freeQuote * cfg.buffer * leverageFactor * AmountScale
       /\ req[r].rawSellAmount * 100 = req[r].freeBase * cfg.buffer
       /\ (req[r].freeQuote = 1000 /\ req[r].price = 50000 /\ leverageFactor = 1)
            => /\ cfg.buffer = 100 => req[r].rawBuyAmount * 100 = 2 * AmountScale
               /\ cfg.buffer = 50 => req[r].rawBuyAmount * 100 = AmountScale

\* freeQuote 1000 at price 50000 with buffer 0.5: the raw buy quantity is 0.01
C14_HalfBuffer ==
  \E r \in Req :
    /\ req[r].sized /\ cfg.buffer = 50
    /\ req[r].freeQuote = 1000 /\ req[r].price = 50000
    /\ req[r].rawBuyAmount * 100 = AmountScale


\* C15: no request proceeds to the balance fetch, the price fetch, the
\* leverage call or the order placement while marketsReady is false.
C15_BlockedUntilLoaded ==
  \A r \in Req :
    req[r].pc \in {"balance", "ticker", "leverage", "order"} => marketsReady

---------------------------------------------------------------------------
(* loadMarkets under fair scheduling: every exchange.loadMarkets call       *)
(* settles and every retry timer fires.  One request, a gateway whose calls *)
(* may fail, leverage enabled on a swap exchange.                           *)

InitLoad == Init /\ env = SingleRequest /\ cfg.useLeverage /\ cfg.type = "swap"

SpecLoad ==
  /\ InitLoad
  /\ [][Next]_vars
  /\ WF_vars(BootLoad)
  /\ \A r \in Req : WF_vars(HandlerLoad(r)) /\ WF_vars(SizerLoad(r))

\* a request has just been received, has passed the duplicate guard and the
\* payload checks, and found marketsReady false
foundUnready(r) ==
  /\ req[r].pc = "idle" /\ req'[r].pc # "idle"
  /\ req'[r].guard /\ ~req'[r].dup /\ req'[r].body \in WellFormedBodies
  /\ ~marketsReady

\* C16: every invocation of loadMarkets terminates.  No invocation makes
\* more than the first attempt plus MaxLoadRetry retries; the start-up
\* invocation and those awaited by a request all return; a failed attempt
\* leaves marketsReady as it was, and the invocation returns to its caller
\* without an error answer; a request that finds marketsReady false starts a
\* fresh invocation, at retry 0.
C16_LoadMarketsTerminates ==
  /\ [](boot.retry <= MaxLoadRetry /\ \A r \in Req : req[r].retry <= MaxLoadRetry)
  /\ <>(boot.pc = "done")
  /\ \A r \in Req : (req[r].pc = "hLoad") ~> (req[r].pc # "hLoad")
  /\ \A r \in Req : (req[r].pc = "sLoad") ~> (req[r].pc # "sLoad")
  /\ [][\A r \in Req :
          /\ req[r].pc \in {"hLoad", "sLoad"}
               => req'[r].pc \in {"hLoad", "sLoad", "balance"}
          /\ (req[r].pc \in {"hLoad", "sLoad"} /\ req'[r].retry = req[r].retry + 1)
               => marketsReady' = marketsReady
          /\ foundUnready(r) => (req'[r].pc = "hLoad" /\ req'[r].retry = 0)]_vars

\* every attempt has failed: the start-up invocation and the two awaited by
\* a request have returned, marketsReady is false, the request goes on
C16_AllAttemptsFailed ==
  \E r \in Req :
    /\ boot.pc = "done" /\ boot.retry = MaxLoadRetry /\ ~marketsReady
    /\ req[r].pc = "balance" /\ req[r].retry = MaxLoadRetry


---------------------------------------------------------------------------
(* Requests in flight at the same time on a working exchange; or a single *)
(* request on a failing one                                               *)

InitOverlap ==
  /\ nIn = <<>>
  /\ nOut = <<>>
  /\ cfg = [secret |-> FALSE, keys |-> TRUE, buffer |-> 100, useLeverage |-> TRUE,
            type |-> "swap"]
  /\ env \in {Overlapping, SingleRequest}
  /\ now = 0
  /\ recentPayloads = <<>>
  /\ marketsReady = FALSE
  /\ boot = [pc |-> "load", retry |-> 0]
  /\ req = [r \in Req |-> ReqIdle]
  /\ orders = <<>>

SpecOverlap == InitOverlap /\ [][Next]_vars

\* C17: nothing excludes one request from fetching the balance and from
\* dispatching its order while another request is between its own balance
\* fetch and its order: a request waiting for the balance, for the leverage
\* call or for the order call can always take that step, whatever the other
\* requests are doing.
C17_NoMutualExclusion ==
  \A r \in Req :
    /\ req[r].pc = "balance" => ENABLED FetchBalance(r)
    /\ req[r].pc = "leverage" => ENABLED SetLeverage(r)
    /\ req[r].pc = "order" => ENABLED CreateMarketOrder(r)

\* two signals for the same symbol, neither a duplicate, both read the same
\* balance before any order was placed, and both have placed an order of
\* the full size computed from it
C17_OverCommitted ==
  \E a, b \in Req :
    /\ a < b /\ ~sameBody(a, b)
    /\ req[a].pc = "done" /\ req[b].pc = "done"
    /\ ~req[a].dup /\ ~req[b].dup
    /\ req[a].sym = req[b].sym
    /\ req[a].bal = req[b].bal /\ req[a].seen = 0 /\ req[b].seen = 0
    /\ req[a].status = 200 /\ req[b].status = 200
    /\ \E i \in ordersOf(a), j \in ordersOf(b) :
         /\ orders[i].amount = req[a].rawBuyAmount
         /\ orders[j].amount = req[b].rawBuyAmount
         /\ orders[i].amount = orders[j].amount

\* the request is waiting for a call of the gateway to settle
inFlight(r) == req[r].pc \in {"hLoad", "sLoad", "balance", "ticker", "leverage", "order"}

\* sets of requests that reached the guard with the same raw body, all
\* arriving within DUP_TTL_MS of each other
sameBodyInWindow ==
  {S \in SUBSET Req :
     \A a, b \in S : /\ req[a].guard /\ sameBody(a, b)
                     /\ req[b].at - req[a].at <= DUP_TTL_MS}

\* C20: the duplicate check and the recording of the key are one step, taken
\* before the handler's first await: a request that passed the guard has its
\* key in the map, stamped with its arrival, from the moment it waits for its
\* first gateway call; so among requests with the same raw body arriving
\* within one TTL window, however they overlap, at most one passes the guard,
\* the others are answered 200 as duplicates without ever waiting for the
\* gateway, and together they place at most one order.
C20_GuardAtomic ==
  /\ \A r \in Req :
       (req[r].guard /\ ~req[r].dup /\ now - req[r].at <= DUP_TTL_MS)
       => /\ sha256(rawTextOf(req[r].body)) \in DOMAIN recentPayloads
          /\ recentPayloads[sha256(rawTextOf(req[r].body))] = req[r].at
  /\ \A r \in Req :
       (req[r].guard /\ req[r].dup)
       => (~inFlight(r) /\ req[r].status = 200 /\ ordersOf(r) = {})
  /\ \A S \in sameBodyInWindow :
       /\ Cardinality({r \in S : ~req[r].dup}) <= 1
       /\ Cardinality(UNION {ordersOf(r) : r \in S}) <= 1

\* a request is still waiting for the gateway when the same body arrives
\* again, at the same time, and is answered as a duplicate
C20_DuplicateWhileInFlight ==
  \E a, b \in Req :
    /\ a < b /\ sameBody(a, b)
    /\ req[a].guard /\ ~req[a].dup /\ inFlight(a) /\ ordersOf(a) = {}
    /\ req[b].guard /\ req[b].dup /\ req[b].at = req[a].at
    /\ req[b].status = 200 /\ req[b].pc = "done"


---------------------------------------------------------------------------
(* The duplicate guard under resubmission on a working exchange; or a     *)
(* single request on a failing one                                        *)

InitGuard ==
  /\ nIn = <<>>
  /\ nOut = <<>>
  /\ cfg = [secret |-> FALSE, keys |-> TRUE, buffer |-> 100, useLeverage |-> TRUE,
            type |-> "swap"]
  /\ env \in {Resubmitting, SingleRequest}
  /\ now = 0
  /\ recentPayloads = <<>>
  /\ marketsReady = FALSE
  /\ boot = [pc |-> "load", retry |-> 0]
  /\ req = [r \in Req |-> ReqIdle]
  /\ orders = <<>>

SpecGuard == InitGuard /\ [][Next]_vars

\* the key isDuplicate is called with for request r, once r has arrived
dupKey(r) == sha256(rawTextOf(req'[r].body))

\* request r arrives in this step and reaches the duplicate guard
reachesGuard(r) == req[r].pc = "idle" /\ req'[r].pc # "idle" /\ req'[r].guard

\* C18: when isDuplicate is called with a key that is present and not
\* expired, it returns true and leaves the key's timestamp as it was; no
\* step removes or re-stamps a key that has not expired, so a key expires
\* DUP_TTL_MS after its first insertion however many duplicates arrive in
\* between.
C18_TimestampKept ==
  [][/\ \A r \in Req :
          (reachesGuard(r) /\ dupKey(r) \in DOMAIN recentPayloads
             /\ now' - recentPayloads[dupKey(r)] <= DUP_TTL_MS)
          => /\ req'[r].dup
             /\ dupKey(r) \in DOMAIN recentPayloads'
             /\ recentPayloads'[dupKey(r)] = recentPayloads[dupKey(r)]
     /\ \A k \in DOMAIN recentPayloads :
          now' - recentPayloads[k] <= DUP_TTL_MS
          => (k \in DOMAIN recentPayloads' /\ recentPayloads'[k] = recentPayloads[k])]_vars

\* a body is recorded, sent again DUP_TTL_MS later and found a duplicate,
\* and sent a third time a millisecond after that: the key, DUP_TTL_MS + 1
\* old, has expired and the third submission is new
C18_WindowDoesNotSlide ==
  \E a, b, c \in Req :
    /\ a < b /\ b < c /\ sameBody(a, b) /\ sameBody(b, c)
    /\ req[a].guard /\ ~req[a].dup
    /\ req[b].guard /\ req[b].dup /\ req[b].at = req[a].at + DUP_TTL_MS
    /\ req[c].guard /\ ~req[c].dup /\ req[c].at = req[b].at + 1

---------------------------------------------------------------------------
(* A body sent again after its first submission has been answered, on an  *)
(* exchange whose metadata loads and whose other calls may fail; or a      *)
(* single request on an exchange whose every call may fail                 *)

\* the most submissions of a run in which a body is sent again
MaxRetried == 2

Retried ==
  [bodies |-> {TextBuy, TextHold, JsonNull}, requests |-> MaxRetried,
   overlap |-> FALSE, steady |-> FALSE, elapsed |-> {DUP_TTL_MS, DUP_TTL_MS + 1},
   loading |-> "up"]

InitRetry ==
  /\ nIn = <<>>
  /\ nOut = <<>>
  /\ cfg \in [secret : BOOLEAN, keys : {TRUE}, buffer : {100}, useLeverage : {TRUE},
              type : {"swap"}]
  /\ env \in {Retried, SingleRequest}
  /\ now = 0
  /\ recentPayloads = <<>>
  /\ marketsReady = FALSE
  /\ boot = [pc |-> "load", retry |-> 0]
  /\ req = [r \in Req |-> ReqIdle]
  /\ orders = <<>>

SpecRetry == InitRetry /\ [][Next]_vars

\* C21: the key of a body is in the duplicate cache from the step in which
\* its request passes the signature check, before the payload is parsed and
\* before any gateway call, however the request ends; so when a request that
\* passed the check has ended in 400 or 500, the same body sent again within
\* DUP_TTL_MS (and passing the check) is answered 200 as a duplicate, never
\* waits for the gateway and places no order.
C21_RecordedBeforeParsing ==
  /\ [](\A a, b \in Req :
          (a < b /\ req[a].guard /\ req[b].guard /\ sameBody(a, b)
             /\ req[a].status \in {400, 500} /\ req[b].at - req[a].at <= DUP_TTL_MS)
          => (req[b].dup /\ req[b].status = 200 /\ ~inFlight(b) /\ ordersOf(b) = {}))
  /\ [][\A r \in Req :
          reachesGuard(r)
          => /\ dupKey(r) \in DOMAIN recentPayloads'
             /\ (~req'[r].dup => recentPayloads'[dupKey(r)] = now')]_vars

\* a buy whose order the exchange refused was answered 500; the same body,
\* sent again DUP_TTL_MS later, is answered 200 as a duplicate and the
\* exchange has seen the one refused order only
C21_FailedThenDuplicate ==
  \E a, b \in Req :
    /\ a < b /\ sameBody(a, b) /\ req[a].body = TextBuy
    /\ req[a].guard /\ ~req[a].dup /\ req[a].status = 500 /\ ordersOf(a) # {}
    /\ req[b].guard /\ req[b].dup /\ req[b].status = 200 /\ req[b].pc = "done"
    /\ req[b].at = req[a].at + DUP_TTL_MS
    /\ ordersOf(b) = {} /\ Len(orders) = 1


\* request r arrives in this step with a signature that does not verify
arrivesUnverified(r) ==
  /\ req[r].pc = "idle" /\ req'[r].pc # "idle"
  /\ verifySignature(cfg.secret, req'[r].sig, rawTextOf(req'[r].body)) # "ok"

\* C22: with a webhook secret configured, the arrival of a request whose
\* signature does not verify leaves the duplicate cache, the loaded metadata
\* and the orders as they were and ends the request in the same step; such a
\* request never waits for a gateway call (market load, balance, ticker,
\* leverage, order) and no order is ever placed for it.
C22_UnverifiedTouchesNothing ==
  /\ [][\A r \in Req :
          (cfg.secret /\ arrivesUnverified(r))
          => /\ recentPayloads' = recentPayloads
             /\ marketsReady' = marketsReady
             /\ orders' = orders
             /\ req'[r].pc = "done" /\ ~req'[r].guard]_vars
  /\ [](\A r \in Req :
          (cfg.secret /\ req[r].pc # "idle" /\ ~req[r].guard)
          => (~inFlight(r) /\ ordersOf(r) = {} /\ req[r].status # 200))

\* with a secret configured a signed buy was recorded; the same body arrives
\* later than DUP_TTL_MS with the digest of another payload and is answered
\* 401: the cache still holds the first submission's key, expired as it is,
\* and the exchange has seen the first order only
C22_RejectedLeavesCache ==
  \E a, b \in Req :
    /\ cfg.secret /\ a < b /\ sameBody(a, b) /\ req[a].body = TextBuy
    /\ req[a].guard /\ ~req[a].dup /\ ordersOf(a) # {}
    /\ req[b].pc = "done" /\ ~req[b].guard /\ req[b].status = 401
    /\ req[b].sig = computeHmac(rawTextOf(req[b].body) \o <<"x">>)
    /\ req[b].at > req[a].at + DUP_TTL_MS
    /\ DOMAIN recentPayloads = {sha256(rawTextOf(req[a].body))}
    /\ recentPayloads[sha256(rawTextOf(req[a].body))] = req[a].at
    /\ ordersOf(b) = {} /\ Len(orders) = 1


---------------------------------------------------------------------------
(* The long-only server, src/server.js lines 1-212: a buy opens a long, a  *)
(* sell closes it.  One request, cut at its awaits.  Its configuration is  *)
(* kept in cfg, its request in req[1], the calls of createMarketOrder and  *)
(* createOrder it makes in orders; it has no signature check and no        *)
(* duplicate guard.                                                        *)

\* MIN_AMOUNT in quantity units: the default, 0.00000001, is less than one unit
MIN_AMOUNT == 0

\* the most positions in a fetchPositions response
MaxPositions == 2

\* EXCHANGE_TYPE, and the methods the exchange object has
LongOnlyConfigs ==
  [type : {"swap", "spot"}, fetchPositions : BOOLEAN, createMarketOrder : BOOLEAN]

TextBlank == <<" ">>

LongOnlyBodies == {TextBlank, TextBuy, TextSell, TextSellDoge, TextHold, JsonNull, JsonSell}

\* one request against an exchange whose calls may fail
LongOnlyRun ==
  [bodies |-> LongOnlyBodies, requests |-> 1, overlap |-> FALSE, steady |-> FALSE,
   elapsed |-> {0}, loading |-> "flaky"]

\* a position of a fetchPositions response.  Of the six fields the code looks
\* at, a response carries contracts or size, the others are undefined.
Position(contracts, size) == [contracts |-> contracts, size |-> size]

Positions ==
  { Position(undefined, undefined), Position(0 - 4, undefined),
    Position(5, undefined), Position(undefined, 3) }

\* a fetchPositions outcome: the call rejects, or resolves with an array
PositionReplies ==
  {[ok |-> FALSE, list |-> <<>>]}
    \cup {[ok |-> TRUE, list |-> l] : l \in UNION {[1..n -> Positions] : n \in 0..MaxPositions}}

LongOnlyIdle ==
  [pc |-> "idle", body |-> <<>>, action |-> <<>>, symbol |-> null, retry |-> 0,
   market |-> null, asked |-> FALSE, posOk |-> FALSE, pos |-> <<>>, from |-> "",
   raw |-> 0, bal |-> NoBalance, price |-> 0, qty |-> 0, gw |-> <<>>,
   status |-> 0, error |-> ""]

\* normalizeSymbol of lines 64-70: as the one above, but DEFAULT_SYMBOL for an
\* empty argument
normalizeSymbolLongOnly(s) ==
  IF s = null \/ s = <<>> THEN DEFAULT_SYMBOL ELSE normalizeSymbol(s)

\* lines 154-171: the payload read from the body; status 0 means accepted
parsePayloadLongOnly(body) ==
  LET text   == trim(body)
      json   == JSONparse(text)
      parts  == tokens(text)
      pAct   == IF json.ok THEN json.action
                ELSE IF Len(parts) > 0 THEN toLowerCase(parts[1]) ELSE null
      pSym   == IF json.ok THEN json.symbol
                ELSE IF Len(parts) > 1 THEN parts[2] ELSE DEFAULT_SYMBOL
      action == IF pAct = null THEN <<>> ELSE toLowerCase(pAct)
      symbol == normalizeSymbolLongOnly(IF pSym = null \/ pSym = <<>> THEN DEFAULT_SYMBOL ELSE pSym)
      out(st, err) == [status |-> st, error |-> err, action |-> action, symbol |-> symbol]
  IN IF json.ok /\ json.isNull THEN out(500, "TypeError")
     ELSE IF ~json.ok /\ Len(parts) = 0 THEN out(400, "Empty payload")
     ELSE IF action # TextBuy /\ action # TextSell THEN out(400, "Action must be buy or sell")
     ELSE IF symbol = <<>> THEN out(400, "Missing symbol")
     ELSE out(0, "")

\* line 74: the market looked up; then fetchBalance is called
lookedUp(rq, ready) ==
  [rq EXCEPT !.pc = "balance",
             !.market = IF rq.symbol \in keysOf(ready) THEN rq.symbol ELSE null]

\* getPriceAndBalances, line 73: if (!marketsReady) await loadMarkets()
getPriceAndBalances(rq, ready) ==
  IF ~ready THEN [rq EXCEPT !.pc = "sLoad", !.retry = 0] ELSE lookedUp(rq, ready)

\* lines 177-189 and 98: a buy goes to computeBuyAmount; a sell to
\* computeSellAmount, which calls fetchPositions when the exchange has it
computeAmount(rq, c, ready) ==
  IF rq.action = TextSell /\ c.fetchPositions THEN [rq EXCEPT !.pc = "positions"]
  ELSE getPriceAndBalances(rq, ready)

\* lines 152-173 up to the first await
receivedLongOnly(rq, body, c, ready) ==
  LET payload == parsePayloadLongOnly(body)
      parsed  == [rq EXCEPT !.body = body, !.action = payload.action, !.symbol = payload.symbol]
  IN IF payload.status # 0 THEN respond(parsed, payload.status, payload.error)
     ELSE IF ~ready THEN [parsed EXCEPT !.pc = "hLoad", !.retry = 0]
     ELSE computeAmount(parsed, c, ready)

\* line 105: the size fields of a position that are truthy, in the code's order
sizeCandidates(p) == SelectSeq(<<p.contracts, p.size>>, truthy)

\* a loop that looks at the first position only: what C19 must tell from
\* positionRaw
positionRawOfFirst(list) ==
  IF Len(list) > 0 /\ Len(sizeCandidates(list[1])) > 0 /\ Head(sizeCandidates(list[1])) > 0
  THEN Head(sizeCandidates(list[1]))
  ELSE 0

\* lines 100-114: raw of the first position whose first size candidate is a
\* positive number; 0 when the loop ends without one
positionRaw(list) ==
  LET hits == {i \in 1..Len(list) :
                 Len(sizeCandidates(list[i])) > 0 /\ Head(sizeCandidates(list[i])) > 0}
  IN IF hits = {} THEN 0
     ELSE Head(sizeCandidates(list[CHOOSE i \in hits : \A j \in hits : i <= j]))

\* try { qty = parseFloat(exchange.amountToPrecision(symbol, qty)) } catch(e){}:
\* the call throws for a symbol that is no market key, and may throw otherwise
roundedOrRaw(symbol, qty, ready, ok) ==
  IF symbol \in keysOf(ready) /\ ok THEN amountToPrecision(symbol, qty) ELSE qty

\* a placeMarketOrder that goes to createOrder at once: what C23 must tell
\* from placeMarketOrder
placeMarketOrderByFallback(rq, c) == [rq EXCEPT !.pc = "createOrder"]

\* placeMarketOrder, lines 131-139: createMarketOrder when the exchange has
\* it, else createOrder
placeMarketOrder(rq, c) ==
  [rq EXCEPT !.pc = IF c.createMarketOrder THEN "createMarketOrder" ELSE "createOrder"]

\* lines 181-185 and 190-200: the quantity tested against MIN_AMOUNT
checkedQty(rq, c, qty) ==
  IF ~truthy(qty) \/ isNaN(qty) \/ lte(qty, MIN_AMOUNT)
  THEN respond([rq EXCEPT !.qty = qty], 400,
               IF rq.action = TextBuy THEN "Buy amount too small or zero"
               ELSE "Sell amount too small or zero")
  ELSE placeMarketOrder([rq EXCEPT !.qty = qty], c)

\* lines 99-119 once fetchPositions has settled: the quantity of a position,
\* or the fallback of line 122
afterPositions(rq, c, reply, ok, ready) ==
  LET asked == [rq EXCEPT !.asked = TRUE, !.posOk = reply.ok, !.pos = reply.list]
      raw   == positionRaw(reply.list)
  IN IF reply.ok /\ raw > 0
     THEN checkedQty([asked EXCEPT !.from = "position", !.raw = raw], c,
                     roundedOrRaw(rq.symbol, raw, ready, ok))
     ELSE getPriceAndBalances(asked, ready)

\* balance.free[asset], or 0
freeOnly(bal, asset) ==
  IF balOf(bal, asset).present /\ truthy(balOf(bal, asset).free)
  THEN balOf(bal, asset).free
  ELSE 0

\* lines 87 and 123: market.base / market.quote, or the part of the symbol
assetOf(rq, side) ==
  LET parts == split(rq.symbol, "/")
  IN IF rq.market # null
     THEN (IF side = TextBuy THEN MarketOf(rq.market).quote ELSE MarketOf(rq.market).base)
     ELSE IF side = TextSell THEN parts[1]
     ELSE IF Len(parts) > 1 THEN parts[2] ELSE null

\* lines 79-91 and 123-127 once fetchTicker has settled
afterTickerLongOnly(rq, c, ticker, ok, ready) ==
  LET price == priceOf(ticker)
      free  == freeOnly(rq.bal, assetOf(rq, rq.action))
      raw   == IF rq.action = TextBuy THEN (free * AmountScale) \div price ELSE free
      amount == [rq EXCEPT !.price = price, !.raw = raw,
                           !.from = IF rq.action = TextSell THEN "balance" ELSE ""]
  IN IF rq.action = TextBuy /\ ~truthy(price)
     THEN respond([rq EXCEPT !.price = price], 500, "Cannot fetch price")
     ELSE checkedQty(amount, c, roundedOrRaw(rq.symbol, raw, ready, ok))

\* lines 132-136 and 196-199: the params of an order call
paramsOf(c, side) ==
  [reduceOnly |-> (side = TextSell /\ c.type = "swap"), market |-> (c.type = "swap")]

\* the createMarketOrder or createOrder call a request makes when it moves on
submittedLongOnly(old, new, c) ==
  IF new.pc \in {"createMarketOrder", "createOrder"} /\ new.pc # old.pc
  THEN Append(orders, [call |-> new.pc, symbol |-> new.symbol, side |-> new.action,
                       amount |-> new.qty, params |-> paramsOf(c, new.action)])
  ELSE orders

InitLongOnly ==
  /\ nIn = <<>>
  /\ nOut = <<>>
  /\ cfg \in LongOnlyConfigs
  /\ env = LongOnlyRun
  /\ now = 0
  /\ recentPayloads = <<>>
  /\ marketsReady = FALSE
  /\ boot = [pc |-> "load", retry |-> 0]
  /\ req = <<LongOnlyIdle>>
  /\ orders = <<>>

\* POST /webhook arrives and runs to its first await
ReceiveLongOnly ==
  /\ req[1].pc = "idle"
  /\ \E body \in env.bodies :
       req' = [req EXCEPT ![1] = receivedLongOnly(req[1], body, cfg, marketsReady)]
  /\ UNCHANGED <<normVars, cfg, env, now, recentPayloads, marketsReady, boot, orders>>

\* the loadMarkets() of line 173
HandlerLoadLongOnly ==
  /\ req[1].pc = "hLoad"
  /\ \E ok \in LoadSettles :
       /\ marketsReady' = (marketsReady \/ ok)
       /\ req' = [req EXCEPT ![1] =
                    IF loadStep(ok, req[1].retry) = "retry"
                    THEN [req[1] EXCEPT !.retry = req[1].retry + 1]
                    ELSE computeAmount(req[1], cfg, marketsReady \/ ok)]
  /\ UNCHANGED <<normVars, cfg, env, now, recentPayloads, boot, orders>>

\* the loadMarkets() of line 73
SizerLoadLongOnly ==
  /\ req[1].pc = "sLoad"
  /\ \E ok \in LoadSettles :
       /\ marketsReady' = (marketsReady \/ ok)
       /\ req' = [req EXCEPT ![1] =
                    IF loadStep(ok, req[1].retry) = "retry"
                    THEN [req[1] EXCEPT !.retry = req[1].retry + 1]
                    ELSE lookedUp(req[1], marketsReady \/ ok)]
  /\ UNCHANGED <<normVars, cfg, env, now, recentPayloads, boot, orders>>

\* exchange.fetchPositions([symbol]) of line 99 settles
FetchPositions ==
  /\ req[1].pc = "positions"
  /\ \E reply \in PositionReplies, ok \in BOOLEAN :
       /\ req' = [req EXCEPT ![1] = afterPositions(req[1], cfg, reply, ok, marketsReady)]
       /\ orders' = submittedLongOnly(req[1],
                                      afterPositions(req[1], cfg, reply, ok, marketsReady), cfg)
  /\ UNCHANGED <<normVars, cfg, env, now, recentPayloads, marketsReady, boot>>

\* exchange.fetchBalance() of line 76 settles
FetchBalanceLongOnly ==
  /\ req[1].pc = "balance"
  /\ \E ok \in Settles, bal \in Wallets :
       req' = [req EXCEPT ![1] =
                 IF ok THEN [req[1] EXCEPT !.pc = "ticker", !.bal = bal]
                 ELSE respond(req[1], 500, "fetchBalance failed")]
  /\ UNCHANGED <<normVars, cfg, env, now, recentPayloads, marketsReady, boot, orders>>

\* exchange.fetchTicker(symbol) of line 78 settles
FetchTickerLongOnly ==
  /\ req[1].pc = "ticker"
  /\ \E ticker \in Tickers, ok \in BOOLEAN :
       /\ req' = [req EXCEPT ![1] = afterTickerLongOnly(req[1], cfg, ticker, ok, marketsReady)]
       /\ orders' = submittedLongOnly(req[1],
                      afterTickerLongOnly(req[1], cfg, ticker, ok, marketsReady), cfg)
  /\ UNCHANGED <<normVars, cfg, env, now, recentPayloads, marketsReady, boot>>

\* exchange.createMarketOrder of line 139 settles: its order is the answer,
\* or it throws and createOrder is called (lines 141-145); gw keeps how the
\* order calls of the request have settled
CreateMarketOrderLongOnly ==
  /\ req[1].pc = "createMarketOrder"
  /\ \E ok \in Settles :
       /\ req' = [req EXCEPT ![1] =
                    IF ok THEN [req[1] EXCEPT !.pc = "done", !.status = 200,
                                              !.gw = Append(req[1].gw, "ok")]
                    ELSE [req[1] EXCEPT !.pc = "createOrder",
                                        !.gw = Append(req[1].gw, "throw")]]
       /\ orders' = IF ok THEN orders
                    ELSE submittedLongOnly(req[1], [req[1] EXCEPT !.pc = "createOrder"], cfg)
  /\ UNCHANGED <<normVars, cfg, env, now, recentPayloads, marketsReady, boot>>

\* exchange.createOrder of line 145 settles: its order is the answer, or it
\* throws and the handler answers 500 (lines 204-207)
CreateOrder ==
  /\ req[1].pc = "createOrder"
  /\ \E ok \in Settles :
       req' = [req EXCEPT ![1] =
                 IF ok THEN [req[1] EXCEPT !.pc = "done", !.status = 200,
                                           !.gw = Append(req[1].gw, "ok")]
                 ELSE respond([req[1] EXCEPT !.gw = Append(req[1].gw, "throw")],
                              500, "createOrder failed")]
  /\ UNCHANGED <<normVars, cfg, env, now, recentPayloads, marketsReady, boot, orders>>

NextLongOnly ==
  \/ BootLoad
  \/ ReceiveLongOnly
  \/ HandlerLoadLongOnly
  \/ SizerLoadLongOnly
  \/ FetchPositions
  \/ FetchBalanceLongOnly
  \/ FetchTickerLongOnly
  \/ CreateMarketOrderLongOnly
  \/ CreateOrder

SpecLongOnly == InitLongOnly /\ [][NextLongOnly]_vars

\* the size a position reports
sizeReported(p) == IF truthy(p.contracts) THEN p.contracts ELSE p.size

\* the positions of the response that have a positive size
positive(rq) == {i \in 1..Len(rq.pos) : truthy(sizeReported(rq.pos[i])) /\ sizeReported(rq.pos[i]) > 0}

\* fetchPositions is supported and has returned a position with a positive size
positionFound(rq) == cfg.fetchPositions /\ rq.asked /\ rq.posOk /\ positive(rq) # {}

\* the sell quantity comes from the first position with a positive size when
\* there is one, and then no balance is fetched; from the free base balance
\* in every other case; rounded to the market's precision, or as it is
sellFromPositionElseBalance ==
  LET rq == req[1]
  IN /\ (rq.action = TextSell /\ positionFound(rq))
        => /\ rq.from = "position"
           /\ rq.raw = sizeReported(rq.pos[CHOOSE i \in positive(rq) : \A j \in positive(rq) : i <= j])
           /\ rq.bal = NoBalance
     /\ (rq.action = TextSell /\ rq.from # "" /\ ~positionFound(rq))
        => /\ rq.from = "balance"
           /\ rq.raw = freeOnly(rq.bal, IF rq.market # null THEN MarketOf(rq.market).base
                                        ELSE split(rq.symbol, "/")[1])
     /\ (rq.action = TextSell /\ rq.from # "")
        => rq.qty \in {rq.raw, amountToPrecision(rq.symbol, rq.raw)}
     /\ \A i \in 1..Len(orders) :
          orders[i].side = TextSell => (rq.from # "" /\ orders[i].amount = rq.qty)

\* C19: in the long-only server the quantity of a sell is the size of an open
\* position whenever fetchPositions is supported and returns a position with
\* a positive size, and the free base balance in every other case (method
\* absent, call rejected, no position, no positive size); every sell order
\* submitted is marked reduce-only when EXCHANGE_TYPE is "swap", and carries
\* no such mark otherwise.
C19_SellSizedFromPosition ==
  /\ sellFromPositionElseBalance
  /\ \A i \in 1..Len(orders) :
       orders[i].side = TextSell => (orders[i].params.reduceOnly <=> cfg.type = "swap")

\* C19 as stated: the same, with every sell order marked reduce-only
C19_EveryCloseReduceOnly ==
  /\ sellFromPositionElseBalance
  /\ \A i \in 1..Len(orders) : orders[i].side = TextSell => orders[i].params.reduceOnly

\* on a swap exchange a sell finds two positions, the first without a
\* positive size, and is answered 200 with a reduce-only order of the size of
\* the second
C19_ClosedFromSecondPosition ==
  /\ cfg.type = "swap" /\ cfg.fetchPositions
  /\ req[1].action = TextSell /\ req[1].pc = "done" /\ req[1].status = 200
  /\ Len(req[1].pos) = 2 /\ positive(req[1]) = {2}
  /\ req[1].from = "position" /\ req[1].qty = sizeReported(req[1].pos[2])
  /\ Len(orders) = 1 /\ orders[1].amount = req[1].qty /\ orders[1].params.reduceOnly

\* C23: in the long-only server's placeMarketOrder, createOrder is called
\* only when the exchange has no createMarketOrder or when the
\* createMarketOrder call has thrown, with the same symbol, side, amount and
\* params; so a request makes at most two order calls, and exactly one when
\* its first call returns normally, which is then answered 200; when the
\* createOrder call throws, the request is answered 500.
C23_FallbackOnlyOnFailure ==
  LET rq == req[1]
      n  == Len(orders)
  IN /\ n <= 2 /\ Len(rq.gw) <= n
     /\ (n >= 1 /\ cfg.createMarketOrder) => orders[1].call = "createMarketOrder"
     /\ \A i \in 1..n :
          orders[i].call = "createOrder"
          => IF cfg.createMarketOrder
             THEN i = 2 /\ rq.gw[1] = "throw"
                  /\ orders[2] = [orders[1] EXCEPT !.call = "createOrder"]
             ELSE i = 1 /\ n = 1
     /\ (Len(rq.gw) >= 1 /\ rq.gw[1] = "ok")
        => (n = 1 /\ Len(rq.gw) = 1 /\ rq.pc = "done" /\ rq.status = 200)
     /\ (Len(rq.gw) = n /\ n >= 1 /\ orders[n].call = "createOrder" /\ rq.gw[n] = "throw")
        => (rq.pc = "done" /\ rq.status = 500)

\* createMarketOrder has thrown, createOrder was called with the same order
\* and has thrown as well: two order calls, and the answer is 500
C23_BothCallsFailed ==
  /\ cfg.createMarketOrder
  /\ Len(orders) = 2 /\ orders[1].call = "createMarketOrder" /\ orders[2].call = "createOrder"
  /\ orders[2].amount = orders[1].amount
  /\ req[1].gw = <<"throw", "throw">>
  /\ req[1].pc = "done" /\ req[1].status = 500


---------------------------------------------------------------------------
(* Study of normalizeSymbol as a pure function: every string over a small  *)
(* alphabet, up to MaxSymLen characters, normalised once and then again.   *)

MaxSymLen == 6

SymAlphabet == {"a", "-", "_", "/", " "}

SymInputs == UNION {[1..n -> SymAlphabet] : n \in 0..MaxSymLen}

HandlerIdle ==
  /\ cfg = [secret |-> FALSE, keys |-> FALSE]
  /\ env = [bodies |-> {}, requests |-> 0, overlap |-> FALSE, steady |-> TRUE,
            elapsed |-> {0}, loading |-> "up"]
  /\ now = 0
  /\ recentPayloads = <<>>
  /\ marketsReady = FALSE
  /\ boot = [pc |-> "done", retry |-> 0]
  /\ req = <<>>
  /\ orders = <<>>

InitNorm ==
  /\ nIn \in SymInputs
  /\ nOut = <<>>
  /\ HandlerIdle

NormalizeOnce ==
  /\ Len(nOut) = 0
  /\ nOut' = <<normalizeSymbol(nIn)>>
  /\ UNCHANGED <<nIn, handlerVars>>

NormalizeAgain ==
  /\ Len(nOut) = 1
  /\ nOut' = Append(nOut, normalizeSymbol(nOut[1]))
  /\ UNCHANGED <<nIn, handlerVars>>

NextNorm == NormalizeOnce \/ NormalizeAgain

SpecNorm == InitNorm /\ [][NextNorm]_vars

\* C8: symbol normalization is idempotent: normalizing an already normalized
\* symbol gives the same symbol, for every input, also for inputs with
\* several dashes or underscores.
C8_NormalizeIdempotent == Len(nOut) = 2 => nOut[2] = nOut[1]

====
